---- MODULE Spec2Model ----
(***************************************************************************)
(* A model of the ChinoSRS flashcard pipeline (anki-cards-generator_CN-ES): *)
(*   - csv_to_anki.py: generate_sort_key, build_notes_from_row,             *)
(*     deduplicate_sort_keys and the upload selection of main;              *)
(*   - audio/engines: the gTTS and Azure generate_audio;                    *)
(*   - audio/generate_audio.py: process_csv_row, and the audio lookups of   *)
(*     anki/api.py that the note builder uses.                              *)
(* Strings are sequences of one-character strings, so that slicing,         *)
(* stripping, splitting and formatting are computed as the code computes    *)
(* them.                                                                    *)
(***************************************************************************)
EXTENDS Integers, Sequences, FiniteSets, TLC

VARIABLES
    dd,                 \* deduplicate_sort_keys: its arguments and locals
    only_deduplicated,  \* main: args.only_deduplicated
    up,                 \* main: the upload loop (notes_to_upload, batch start, posted)
    first,              \* outcome of an earlier deduplicate_sort_keys run on the same input
    gk,                 \* generate_sort_key: its argument, its random draw, its result
    bn,                 \* build_notes_from_row: the row and the notes built
    tts,                \* a TTS engine's generate_audio call
    au,                 \* generate_audio.py over a CSV, and the audio directory
    va,                 \* utils/validate_audio.py: main and what it counts
    ap,                 \* anki/api.py: one call of post
    dm,                 \* main.py dump and the dump_deck.py it starts
    np                  \* utils/normalize_pinyin_csv.py: one syllable

vars == <<dd, only_deduplicated, up, first, gk, bn, tts, au, va, ap, dm, np>>

\* The variables of the other scripts, which run as separate processes
notDedup == <<gk, bn, tts, au, va, ap, dm, np>>
notKey   == <<dd, only_deduplicated, up, first, bn, tts, au, va, ap, dm, np>>
notRow   == <<dd, only_deduplicated, up, first, gk, tts, au, va, ap, dm, np>>
notTts   == <<dd, only_deduplicated, up, first, gk, bn, au, va, ap, dm, np>>
notAudio == <<dd, only_deduplicated, up, first, gk, bn, tts, va, ap, dm, np>>
notValidate == <<dd, only_deduplicated, up, first, gk, bn, tts, au, ap, dm, np>>
notPost == <<dd, only_deduplicated, up, first, gk, bn, tts, au, va, dm, np>>
notDump == <<dd, only_deduplicated, up, first, gk, bn, tts, au, va, ap, np>>
notPinyin == <<dd, only_deduplicated, up, first, gk, bn, tts, au, va, ap, dm>>

(***************************************************************************)
(* Strings and numbers                                                      *)
(***************************************************************************)

Min(a, b) == IF a <= b THEN a ELSE b

DigitChars == <<"0", "1", "2", "3", "4", "5", "6", "7", "8", "9">>

IsDigit(c) == \E d \in 1..10 : DigitChars[d] = c

DigitVal(c) == (CHOOSE d \in 1..10 : DigitChars[d] = c) - 1

\* s[:n]
Take(s, n) == SubSeq(s, 1, Min(n, Len(s)))

\* s[a:b] with 0 <= a <= b (Python's half-open slice)
Slice(s, a, b) == SubSeq(s, a + 1, Min(b, Len(s)))

\* str(n) for n >= 0
RECURSIVE Dec(_)
Dec(n) == IF n < 10 THEN <<DigitChars[n + 1]>>
          ELSE Dec(n \div 10) \o <<DigitChars[(n % 10) + 1]>>

RECURSIVE ZeroPad(_, _)
ZeroPad(s, w) == IF Len(s) >= w THEN s ELSE ZeroPad(<<"0">> \o s, w)

\* f"{n:0wd}": at least w characters, zero filled, the sign first
Fmt(n, w) == IF n >= 0 THEN ZeroPad(Dec(n), w)
             ELSE <<"-">> \o ZeroPad(Dec(0 - n), w - 1)

\* int(s) for a non-empty string of decimal digits
RECURSIVE ToInt(_)
ToInt(s) == IF Len(s) = 1 THEN DigitVal(s[1])
            ELSE 10 * ToInt(SubSeq(s, 1, Len(s) - 1)) + DigitVal(s[Len(s)])

\* sorted(S) for a finite set of integers
RECURSIVE Sorted(_)
Sorted(S) == IF S = {} THEN <<>>
             ELSE LET m == CHOOSE x \in S : \A y \in S : x <= y
                  IN <<m>> \o Sorted(S \ {m})

Range(s) == {s[i] : i \in DOMAIN s}

\* str.isspace of one character
IsSpace(c) == c \in {" ", "\t"}

RECURSIVE LStrip(_)
LStrip(s) == IF s # <<>> /\ IsSpace(s[1]) THEN LStrip(Tail(s)) ELSE s

RECURSIVE RStrip(_)
RStrip(s) == IF s # <<>> /\ IsSpace(s[Len(s)]) THEN RStrip(SubSeq(s, 1, Len(s) - 1)) ELSE s

\* s.strip()
Strip(s) == RStrip(LStrip(s))

\* s.split(c) for a one-character separator: always at least one piece
RECURSIVE SplitOn(_, _)
SplitOn(s, c) ==
    IF \A i \in DOMAIN s : s[i] # c THEN <<s>>
    ELSE LET i == CHOOSE k \in DOMAIN s : s[k] = c /\ \A j \in 1..(k - 1) : s[j] # c
         IN <<SubSeq(s, 1, i - 1)>> \o SplitOn(SubSeq(s, i + 1, Len(s)), c)

\* c.join(pieces)
RECURSIVE Join(_, _)
Join(pieces, c) ==
    IF pieces = <<>> THEN <<>>
    ELSE IF Len(pieces) = 1 THEN pieces[1]
    ELSE pieces[1] \o <<c>> \o Join(Tail(pieces), c)

\* s.startswith(p)
StartsWith(s, p) == Len(s) >= Len(p) /\ SubSeq(s, 1, Len(p)) = p

AllDigits(s) == \A i \in DOMAIN s : IsDigit(s[i])

\* int(s): surrounding whitespace and one sign are accepted; anything else
\* than decimal digits is a ValueError (ok = FALSE)
PyInt(s) ==
    LET t == Strip(s)
        signed == t # <<>> /\ t[1] \in {"+", "-"}
        body == IF signed THEN Tail(t) ELSE t
    IN IF body # <<>> /\ AllDigits(body)
       THEN [ok |-> TRUE,
             val |-> IF signed /\ t[1] = "-" THEN 0 - ToInt(body) ELSE ToInt(body)]
       ELSE [ok |-> FALSE, val |-> 0]

\* str(n)
Str(n) == IF n >= 0 THEN Dec(n) ELSE <<"-">> \o Dec(0 - n)

(***************************************************************************)
(* Sort keys: f"{hsk_level:02d}{freq_bucket:02d}{random_num:04d}"           *)
(***************************************************************************)

RandomModulus == 10000

\* A variant without the zero fill: f"{hsk_level}{freq_bucket}{random_num}"
SortKeyUnpadded(hsk_level, freq_bucket, random_num) ==
    Str(hsk_level) \o Str(freq_bucket) \o Str(random_num)

SortKeyOf(hsk_level, freq_bucket, random_num) ==
    Fmt(hsk_level, 2) \o Fmt(freq_bucket, 2) \o Fmt(random_num, 4)

(***************************************************************************)
(* generate_sort_key                                                        *)
(***************************************************************************)

HskPrefix  == <<"h", "s", "k", ":">>
FreqPrefix == <<"f", "r", "e", "q", ":">>

Top1k  == <<"t", "o", "p", "1", "k">>
Top3k  == <<"t", "o", "p", "3", "k">>
Top5k  == <<"t", "o", "p", "5", "k">>
Top10k == <<"t", "o", "p", "1", "0", "k">>
Rare   == <<"r", "a", "r", "e">>

UnknownDefault == 99

\* freq_map.get(freq_name, 99)
FreqMapGet(freq_name) ==
    CASE freq_name = Top1k  -> 1
      [] freq_name = Top3k  -> 3
      [] freq_name = Top5k  -> 5
      [] freq_name = Top10k -> 10
      [] freq_name = Rare   -> 90
      [] OTHER -> UnknownDefault

\* lines 36-43: the loop over the tags; an hsk tag that does not parse leaves
\* the level as it is
RECURSIVE HskLoop(_, _)
HskLoop(tags, hsk_level) ==
    IF tags = <<>> THEN hsk_level
    ELSE LET tag == Strip(tags[1])
             parsed == PyInt(SplitOn(tag, ":")[2])
         IN HskLoop(Tail(tags),
                    IF StartsWith(tag, HskPrefix) /\ parsed.ok THEN parsed.val
                    ELSE hsk_level)

\* lines 55-60: the loop over the tags, every freq tag sets the bucket
RECURSIVE FreqLoop(_, _)
FreqLoop(tags, freq_bucket) ==
    IF tags = <<>> THEN freq_bucket
    ELSE LET tag == Strip(tags[1])
         IN FreqLoop(Tail(tags),
                     IF StartsWith(tag, FreqPrefix) THEN FreqMapGet(SplitOn(tag, ":")[2])
                     ELSE freq_bucket)

ParseHskLevel(frecuencia) ==
    IF frecuencia = <<>> THEN UnknownDefault
    ELSE HskLoop(SplitOn(frecuencia, ";"), UnknownDefault)

ParseFreqBucket(frecuencia) ==
    IF frecuencia = <<>> THEN UnknownDefault
    ELSE FreqLoop(SplitOn(frecuencia, ";"), UnknownDefault)

generate_sort_key(frecuencia, random_num) ==
    SortKeyOf(ParseHskLevel(frecuencia), ParseFreqBucket(frecuencia), random_num)

\* random.randint(0, 9999): the values the model draws
RandomDraws == {0, 42, RandomModulus - 1}

\* One call: the random number is drawn and the key returned
GenerateSortKey ==
    /\ gk.pc = "call"
    /\ \E r \in RandomDraws :
         gk' = [gk EXCEPT !.pc = "ret", !.random_num = r,
                          !.sort_key = generate_sort_key(gk.frecuencia, r)]
    /\ UNCHANGED notKey

\* Tags a frecuencia field is made of; text is what follows the colon. An hsk
\* tag either carries the integer int (parses) or a text that is none.
HskSamples == {0 - 1, 0, 7, 99, 100}

TagDescs ==
    {[kind |-> "hsk", parses |-> TRUE, int |-> n, text |-> Str(n), pad |-> FALSE] : n \in HskSamples}
    \cup {[kind |-> "hsk", parses |-> TRUE, int |-> 42, text |-> <<" ", "4", "2">>, pad |-> FALSE],
          [kind |-> "hsk", parses |-> TRUE, int |-> 5, text |-> <<"5">>, pad |-> TRUE],
          [kind |-> "hsk", parses |-> FALSE, int |-> 0, text |-> <<>>, pad |-> FALSE],
          [kind |-> "hsk", parses |-> FALSE, int |-> 0, text |-> <<"x">>, pad |-> FALSE]}
    \cup {[kind |-> "freq", parses |-> FALSE, int |-> 0, text |-> t, pad |-> FALSE] :
             t \in {Top1k, Top3k, Top5k, Top10k, Rare, <<"z">>, <<>>}}
    \cup {[kind |-> "freq", parses |-> FALSE, int |-> 0, text |-> Top3k, pad |-> TRUE],
          [kind |-> "pos", parses |-> FALSE, int |-> 0, text |-> <<"n">>, pad |-> FALSE]}

RenderTag(desc) ==
    LET prefix == CASE desc.kind = "hsk" -> HskPrefix
                    [] desc.kind = "freq" -> FreqPrefix
                    [] OTHER -> <<"p", "o", "s", ":">>
        body == prefix \o desc.text
    IN IF desc.pad THEN <<" ">> \o body \o <<" ">> ELSE body

MaxTags == 2

TagLists == UNION {[1..n -> TagDescs] : n \in 0..MaxTags}

RenderFrecuencia(tags) == Join([j \in DOMAIN tags |-> RenderTag(tags[j])], ";")

(***************************************************************************)
(* deduplicate_sort_keys                                                    *)
(***************************************************************************)

\* A note without a "fields"/"SortKey" entry
NoKey == <<>>

HasSortKey(note) == note # NoKey

max_sequential_attempts == 1000

MaxFreqBucket == 99

\* First pass: the indices at which a SortKey occurs for the first time and
\* occurs again later, i.e. the first members of duplicate_groups.
DuplicateFirsts(notes) ==
    {i \in DOMAIN notes :
        /\ HasSortKey(notes[i])
        /\ \A j \in 1..(i - 1) : notes[j] # notes[i]
        /\ \E j \in (i + 1)..Len(notes) : notes[j] = notes[i]}

\* sortkey_map[sortkey]: the indices of the notes that carry sortkey, ascending
IndicesOf(notes, sortkey) == Sorted({i \in DOMAIN notes : notes[i] = sortkey})

\* A variant that tracks only the keys of the duplicate groups
UsedSortkeysOfGroupsOnly(notes) ==
    {notes[i] : i \in {j \in DOMAIN notes :
                          /\ HasSortKey(notes[j])
                          /\ \E k \in DOMAIN notes : k # j /\ notes[k] = notes[j]}}

\* used_sortkeys = set(sortkey_map.keys())
UsedSortkeys(notes) == {notes[i] : i \in {j \in DOMAIN notes : HasSortKey(notes[j])}}

\* All orders in which a set can be listed
RECURSIVE AllOrders(_)
AllOrders(S) ==
    IF S = {} THEN {<<>>}
    ELSE UNION {{<<x>> \o p : p \in AllOrders(S \ {x})} : x \in S}

\* A variant that iterates the groups in an unspecified order (as a set would)
GroupOrdersUnordered(firsts) == AllOrders(firsts)

\* duplicate_groups.items(): a dict is iterated in insertion order, which is the
\* order of first occurrence. The set of orders the iteration may take.
GroupOrders(firsts) == {Sorted(firsts)}

\* A variant that formats the bucket after the current one
NewKeyNextBucket(hsk, current_freq, base_random, offset) ==
    hsk \o Fmt(current_freq + 1, 2) \o Fmt((base_random + offset) % RandomModulus, 4)

\* new_key = f"{hsk}{current_freq:02d}{new_random:04d}"
NewKey(hsk, current_freq, base_random, offset) ==
    hsk \o Fmt(current_freq, 2) \o Fmt((base_random + offset) % RandomModulus, 4)

\* A variant that reassigns the first occurrence too
ToReassignAll(indices) == indices

\* indices[1:]: the first occurrence is kept
ToReassign(indices) == Tail(indices)

DedupIdle ==
    [pc |-> "idle", input |-> <<>>, notes |-> <<>>, duplicate_groups |-> <<>>,
     used_sortkeys |-> {}, groups_processed |-> 0, i |-> 0, offset |-> 0,
     current_freq |-> 0, attempts |-> 0, deduplicated_indices |-> {},
     deduplicated_notes |-> <<>>]

DedupStart(notes) == [DedupIdle EXCEPT !.pc = "start", !.input = notes, !.notes = notes]

\* The group being processed and its parsed components
CurGroup    == dd.duplicate_groups[dd.groups_processed]
CurSortkey  == dd.input[CurGroup[1]]
CurHsk      == Take(CurSortkey, 2)
CurFreq     == Slice(CurSortkey, 2, 4)
CurBase     == ToInt(Slice(CurSortkey, 4, 8))
Candidate   == NewKey(CurHsk, dd.current_freq, CurBase, dd.offset)

\* lines 358-379: build sortkey_map; return at once when nothing is duplicated
FirstPass ==
    /\ dd.pc = "start"
    /\ \E order \in GroupOrders(DuplicateFirsts(dd.notes)) :
         dd' = IF order = <<>>
               THEN [dd EXCEPT !.pc = "done", !.deduplicated_notes = <<>>]
               ELSE [dd EXCEPT !.pc = "groups",
                               !.duplicate_groups =
                                   [g \in DOMAIN order |->
                                       IndicesOf(dd.notes, dd.notes[order[g]])],
                               !.used_sortkeys = UsedSortkeys(dd.notes)]
    /\ UNCHANGED <<only_deduplicated, up, first, notDedup>>

\* lines 384-405: the next duplicate group
StartGroup ==
    /\ dd.pc = "groups"
    /\ dd.groups_processed < Len(dd.duplicate_groups)
    /\ LET g == dd.groups_processed + 1
           sortkey == dd.input[dd.duplicate_groups[g][1]]
       IN dd' = [dd EXCEPT !.pc = "notes", !.groups_processed = g, !.i = 1,
                           !.offset = 1,
                           !.current_freq = ToInt(Slice(sortkey, 2, 4))]
    /\ UNCHANGED <<only_deduplicated, up, first, notDedup>>

\* lines 407-414: the next note of the group to reassign
StartNote ==
    /\ dd.pc = "notes"
    /\ dd.i <= Len(ToReassign(CurGroup))
    /\ dd' = [dd EXCEPT !.pc = "try", !.attempts = 0,
                        !.deduplicated_indices = @ \cup {ToReassign(CurGroup)[dd.i]}]
    /\ UNCHANGED <<only_deduplicated, up, first, notDedup>>

\* the inner for loop is exhausted
EndGroup ==
    /\ dd.pc = "notes"
    /\ dd.i > Len(ToReassign(CurGroup))
    /\ dd' = [dd EXCEPT !.pc = "groups"]
    /\ UNCHANGED <<only_deduplicated, up, first, notDedup>>

\* lines 421-426: the candidate key is free
TakeSlot ==
    /\ dd.pc = "try"
    /\ Candidate \notin dd.used_sortkeys
    /\ dd' = [dd EXCEPT !.pc = "notes",
                        !.notes[ToReassign(CurGroup)[dd.i]] = Candidate,
                        !.used_sortkeys = @ \cup {Candidate},
                        !.offset = @ + 1,
                        !.i = @ + 1]
    /\ UNCHANGED <<only_deduplicated, up, first, notDedup>>

\* A variant that gives the bucket up one candidate earlier
BucketGivenUpEarly(attempts) == attempts >= max_sequential_attempts

\* if attempts > max_sequential_attempts
BucketGivenUp(attempts) == attempts > max_sequential_attempts

\* lines 427-432: the candidate key is taken, the bucket is not given up yet
SlotOccupied ==
    /\ dd.pc = "try"
    /\ Candidate \in dd.used_sortkeys
    /\ ~BucketGivenUp(dd.attempts + 1)
    /\ dd' = [dd EXCEPT !.offset = @ + 1, !.attempts = @ + 1]
    /\ UNCHANGED <<only_deduplicated, up, first, notDedup>>

\* lines 432-436: more than max_sequential_attempts misses, next bucket
BucketOverflow ==
    /\ dd.pc = "try"
    /\ Candidate \in dd.used_sortkeys
    /\ BucketGivenUp(dd.attempts + 1)
    /\ ~(dd.current_freq + 1 > MaxFreqBucket)
    /\ dd' = [dd EXCEPT !.current_freq = @ + 1, !.offset = 0, !.attempts = 0]
    /\ UNCHANGED <<only_deduplicated, up, first, notDedup>>

\* lines 439-441: no bucket left, RuntimeError
RaiseSaturated ==
    /\ dd.pc = "try"
    /\ Candidate \in dd.used_sortkeys
    /\ BucketGivenUp(dd.attempts + 1)
    /\ dd.current_freq + 1 > MaxFreqBucket
    /\ dd' = [dd EXCEPT !.pc = "raised", !.current_freq = @ + 1, !.offset = 0,
                        !.attempts = 0]
    /\ UNCHANGED <<only_deduplicated, up, first, notDedup>>

\* lines 443-448: return (notes, deduplicated_notes)
Return ==
    /\ dd.pc = "groups"
    /\ dd.groups_processed = Len(dd.duplicate_groups)
    /\ dd' = [dd EXCEPT !.pc = "done",
                        !.deduplicated_notes = Sorted(dd.deduplicated_indices)]
    /\ UNCHANGED <<only_deduplicated, up, first, notDedup>>

Dedup ==
    \/ FirstPass \/ StartGroup \/ StartNote \/ EndGroup
    \/ TakeSlot \/ SlotOccupied \/ BucketOverflow \/ RaiseSaturated \/ Return
(***************************************************************************)
(* main of csv_to_anki.py, from the call of deduplicate_sort_keys on        *)
(***************************************************************************)

batch_size == 50

UploadIdle == [pc |-> "wait", notes_to_upload |-> <<>>, i |-> 0, posted |-> <<>>,
               retried |-> FALSE]

\* lines 521-534: choose the notes to upload; nothing to upload ends main
SelectUpload ==
    /\ dd.pc = "done"
    /\ up.pc = "wait"
    /\ LET chosen == IF only_deduplicated THEN dd.deduplicated_notes
                     ELSE [j \in 1..Len(dd.notes) |-> j]
       IN up' = [up EXCEPT !.pc = IF Len(chosen) = 0 THEN "done" ELSE "loop",
                           !.notes_to_upload = chosen]
    /\ UNCHANGED <<dd, only_deduplicated, first, notDedup>>

\* notes_to_upload[i:i + batch_size]
Batch == Slice(up.notes_to_upload, up.i, up.i + batch_size)

\* lines 545-569: post("addNotes", notes=batch) returns
PostBatch ==
    /\ up.pc = "loop"
    /\ up.i < Len(up.notes_to_upload)
    /\ up' = [up EXCEPT !.posted = @ \o Batch, !.i = @ + batch_size, !.retried = FALSE]
    /\ UNCHANGED <<dd, only_deduplicated, first, notDedup>>

\* lines 571-615: post raises; the except branch posts notes of this same
\* batch again one by one (up to the first that raises) and the loop goes on
PostBatchFailed ==
    /\ up.pc = "loop"
    /\ up.i < Len(up.notes_to_upload)
    /\ up' = [up EXCEPT !.posted = @ \o Batch, !.i = @ + batch_size, !.retried = TRUE]
    /\ UNCHANGED <<dd, only_deduplicated, first, notDedup>>

\* lines 617-623: the range is exhausted
UploadDone ==
    /\ up.pc = "loop"
    /\ up.i >= Len(up.notes_to_upload)
    /\ up' = [up EXCEPT !.pc = "done", !.retried = FALSE]
    /\ UNCHANGED <<dd, only_deduplicated, first, notDedup>>

Upload == SelectUpload \/ PostBatch \/ PostBatchFailed \/ UploadDone

(***************************************************************************)
(* Inputs of deduplicate_sort_keys                                          *)
(***************************************************************************)

MaxNotes == 4

SampleHsk == 1

SampleFreq == 1

\* Sort keys of one bucket, the last and the first two random values
SampleKeys == {SortKeyOf(SampleHsk, SampleFreq, r) : r \in {0, 1, RandomModulus - 1}}

SmallInputs == UNION {[1..n -> SampleKeys \cup {NoKey}] : n \in 0..MaxNotes}

BlockDups == 2

\* n notes with consecutive random values from base on (mod RandomModulus),
\* followed by BlockDups notes that repeat the first key
BlockInput(freq, base, n) ==
    [j \in 1..(n + BlockDups) |->
        IF j <= n THEN SortKeyOf(SampleHsk, freq, (base + j - 1) % RandomModulus)
        ELSE SortKeyOf(SampleHsk, freq, base)]

BlockBase == 9500

\* Blocks that just fill, and just exceed, the sequential attempts of one note,
\* in the last bucket and in the one before it
LargeInputs ==
    {BlockInput(f, BlockBase, n) :
        f \in {MaxFreqBucket - 1, MaxFreqBucket},
        n \in {max_sequential_attempts + 1, max_sequential_attempts + 2}}

Inputs == SmallInputs \cup LargeInputs

NoRun == [pc |-> "none"]

Idle == [pc |-> "idle"]

\* The other scripts are not running
UtilsIdle == va = Idle /\ ap = Idle /\ dm = Idle /\ np = Idle

OthersIdle == gk = Idle /\ bn = Idle /\ tts = Idle /\ au = Idle /\ UtilsIdle

Init ==
    /\ \E notes \in Inputs : dd = DedupStart(notes)
    /\ only_deduplicated \in BOOLEAN
    /\ up = UploadIdle
    /\ first = NoRun
    /\ OthersIdle

Next == Dedup \/ Upload

Spec == Init /\ [][Next]_vars

(***************************************************************************)
(* Properties of deduplicate_sort_keys and of the upload selection          *)
(***************************************************************************)

\* deduplicate_sort_keys has just returned to main (main changes no note later)
Returned == dd.pc = "done" /\ up.pc = "wait"

AllCarrySortKey == \A j \in DOMAIN dd.input : HasSortKey(dd.input[j])

Reassigned == {j \in DOMAIN dd.notes : dd.notes[j] # dd.input[j]}

HskDigits(key) == Take(key, 2)

FreqDigits(key) == Slice(key, 2, 4)

\* C1: after deduplicate_sort_keys returns normally on notes that all carry a
\* SortKey, the SortKey values of the notes are pairwise distinct.
C1_SortKeysDistinct ==
    (Returned /\ AllCarrySortKey)
        => Cardinality(Range(dd.notes)) = Len(dd.notes)

\* The routine has returned after placing at least two notes, one of them past
\* a candidate key that was taken.
C1_Witness ==
    /\ Returned
    /\ AllCarrySortKey
    /\ Cardinality(Reassigned) >= 2
    /\ dd.offset > Cardinality(Reassigned) + 1

AllIndices == [j \in 1..Len(dd.notes) |-> j]

LaterOccurrences ==
    {j \in DOMAIN dd.input :
        HasSortKey(dd.input[j]) /\ \E i \in 1..(j - 1) : dd.input[i] = dd.input[j]}

\* C5: deduplicated_notes holds exactly the notes whose SortKey was reassigned,
\* which are the members of the duplicate groups except each first occurrence,
\* in input order; main uploads these with --only-deduplicated, else all notes.
C5_DeduplicatedNotesAndUpload ==
    /\ Returned =>
          /\ Range(dd.deduplicated_notes) = Reassigned
          /\ Range(dd.deduplicated_notes) = LaterOccurrences
          /\ \A a, b \in DOMAIN dd.deduplicated_notes :
                a < b => dd.deduplicated_notes[a] < dd.deduplicated_notes[b]
    /\ up.pc # "wait" =>
          up.notes_to_upload = IF only_deduplicated THEN dd.deduplicated_notes
                               ELSE AllIndices
    /\ up.pc = "done" => up.posted = up.notes_to_upload

\* main has uploaded, with --only-deduplicated, the reassigned notes of a list
\* that holds other notes too.
C5_Witness ==
    /\ up.pc = "done"
    /\ only_deduplicated
    /\ Len(up.posted) >= 2
    /\ Len(up.posted) < Len(dd.notes)
    /\ Range(up.posted) = Reassigned

(***************************************************************************)
(* Two runs of deduplicate_sort_keys on equal inputs, one after the other   *)
(***************************************************************************)

Outcome == [pc |-> dd.pc, notes |-> dd.notes,
            deduplicated_notes |-> dd.deduplicated_notes]

\* The first run has ended: keep its outcome and run again on an equal list
Rerun ==
    /\ dd.pc \in {"done", "raised"}
    /\ first = NoRun
    /\ first' = Outcome
    /\ dd' = DedupStart(dd.input)
    /\ UNCHANGED <<only_deduplicated, up, notDedup>>

InitDet ==
    /\ \E notes \in Inputs : dd = DedupStart(notes)
    /\ only_deduplicated = FALSE
    /\ up = UploadIdle
    /\ first = NoRun
    /\ OthersIdle

NextDet == Dedup \/ Rerun

SpecDet == InitDet /\ [][NextDet]_vars

LatinLetters == {"a", "b"}

\* [A-Za-zāáǎàēéěèīíǐìōóǒòūúǔùǖǘǚǜ\s]
InPinyinClass(c) == c \in LatinLetters \/ IsSpace(c)

\* Length of the longest run of whitespace that starts at position i
RECURSIVE SpaceRun(_, _)
SpaceRun(s, i) == IF i <= Len(s) /\ IsSpace(s[i]) THEN 1 + SpaceRun(s, i + 1) ELSE 0

\* Length of the longest run of class characters that starts at position i
RECURSIVE ClassRun(_, _)
ClassRun(s, i) == IF i <= Len(s) /\ InPinyinClass(s[i]) THEN 1 + ClassRun(s, i + 1) ELSE 0

\* Where a match of \s*\([class]+\.\) (dot) or \s*\([class]+\) that starts at i
\* ends, 0 when there is none. Neither "(" nor "." nor ")" is in the class or
\* is whitespace, so the greedy runs are the only way to match.
MatchEnd(s, i, dot) ==
    LET open == i + SpaceRun(s, i)
        last == open + ClassRun(s, open + 1)
    IN IF open <= Len(s) /\ s[open] = "(" /\ last > open
       THEN IF dot
            THEN IF last + 2 <= Len(s) /\ s[last + 1] = "." /\ s[last + 2] = ")"
                 THEN last + 2 ELSE 0
            ELSE IF last + 1 <= Len(s) /\ s[last + 1] = ")" THEN last + 1 ELSE 0
       ELSE 0

\* re.sub(pattern, '', s): leftmost matches, left to right, from position i on
RECURSIVE SubEmpty(_, _, _)
SubEmpty(s, i, dot) ==
    IF i > Len(s) THEN <<>>
    ELSE LET e == MatchEnd(s, i, dot)
         IN IF e > 0 THEN SubEmpty(s, e + 1, dot)
            ELSE <<s[i]>> \o SubEmpty(s, i + 1, dot)

clean_pinyin_from_sentence(sentence) ==
    IF sentence = <<>> THEN <<>>
    ELSE Strip(SubEmpty(SubEmpty(sentence, 1, TRUE), 1, FALSE))

(***************************************************************************)
(* Audio files: naming (generate_audio.py) and lookup (anki/api.py)         *)
(***************************************************************************)

\* hashlib.md5(text.encode('utf-8')).hexdigest()[:8], taken as free of
\* collisions: equal hashes exactly for equal texts
Md5Hex8(text) == <<"md5", text>>

None == [none |-> TRUE]

\* resources/audios when os.path.isdir(audio_dir) is false
NoDirectory == [exists |-> FALSE, files |-> {}]

\* find_audio_for_sentence: the results the directory listing can give. The
\* first listed .mp3 whose name contains the hash is returned, and os.listdir
\* lists in arbitrary order. A name holds a hash when it is the file's hash.
find_audio_for_sentence(sentence, audio_dir) ==
    IF sentence = <<>> \/ ~audio_dir.exists THEN {None}
    ELSE LET hits == {f \in audio_dir.files : f.hash = Md5Hex8(sentence)}
         IN IF hits = {} THEN {None} ELSE hits

\* find_audio_for_word: as above, among the names that start with word_
find_audio_for_word(hanzi, audio_dir) ==
    IF hanzi = <<>> \/ ~audio_dir.exists THEN {None}
    ELSE LET hits == {f \in audio_dir.files : f.word /\ f.hash = Md5Hex8(hanzi)}
         IN IF hits = {} THEN {None} ELSE hits

(***************************************************************************)
(* build_notes_from_row                                                     *)
(***************************************************************************)

\* [s.strip() for s in field.split("|") if s.strip()]
NonBlankPieces(field) ==
    LET pieces == SplitOn(field, "|")
        kept == SelectSeq(pieces, LAMBDA q : Strip(q) # <<>>)
    IN [j \in DOMAIN kept |-> Strip(kept[j])]

\* line 96
AllSentencesCn(row) ==
    LET pieces == NonBlankPieces(row.example_sentence)
    IN [j \in DOMAIN pieces |-> clean_pinyin_from_sentence(pieces[j])]

\* line 97
AllSentencesEs(row) == NonBlankPieces(row.example_translation)

\* lines 100-103
OrEmptyString(list) == IF list = <<>> THEN << <<>> >> ELSE list

\* A variant that leaves the translations as they are
NoPadding(all_sentences_es, n) == all_sentences_es

\* lines 106-107: append the last translation until there are n of them
RECURSIVE PadWithLast(_, _)
PadWithLast(all_sentences_es, n) ==
    IF Len(all_sentences_es) >= n THEN all_sentences_es
    ELSE PadWithLast(Append(all_sentences_es,
                            IF all_sentences_es # <<>>
                            THEN all_sentences_es[Len(all_sentences_es)] ELSE <<>>), n)

\* list[idx]: an index past the end raises IndexError (ok = FALSE)
ListGet(list, idx) ==
    IF idx + 1 \in DOMAIN list THEN [ok |-> TRUE, val |-> list[idx + 1]]
    ELSE [ok |-> FALSE, val |-> <<>>]

ModelNames == <<"ChinoSRS_SentenceCard", "ChinoSRS_PatternCard", "ChinoSRS_AudioCard">>

\* lines 121, 179, 238: idx_sentence, idx_pattern, idx_audio
CardIndex(card, n) ==
    CASE card = 1 -> 0
      [] card = 2 -> IF n > 1 THEN 1 ELSE 0
      [] OTHER    -> IF n > 2 THEN 2 ELSE (IF n > 1 THEN 1 ELSE 0)

\* The sentence lists the cards are built from
CardSentencesCn(row) == OrEmptyString(AllSentencesCn(row))

CardSentencesEs(row) ==
    PadWithLast(OrEmptyString(AllSentencesEs(row)), Len(CardSentencesCn(row)))

\* os.path.basename(path) if path else ""
AudioField(found) == IF found = None THEN <<>> ELSE found

\* The notes of a row, given the three random draws of generate_sort_key and
\* what the audio lookups return (sentence 1..3 and word); "raised" when a
\* list index is out of range
build_notes_from_row(row, draws, found) ==
    LET hanzi == Strip(row.hanzi)
        frecuencia == Strip(row.frecuencia)
        cn == CardSentencesCn(row)
        es == CardSentencesEs(row)
        get_cn(card) == ListGet(cn, CardIndex(card, Len(cn)))
        get_es(card) == ListGet(es, CardIndex(card, Len(cn)))
    IN IF \A card \in 1..3 : get_cn(card).ok /\ get_es(card).ok
       THEN [pc |-> "ret",
             notes |-> [card \in 1..3 |->
                 [modelName |-> ModelNames[card],
                  Hanzi |-> hanzi,
                  SentenceCN |-> get_cn(card).val,
                  SentenceES |-> get_es(card).val,
                  SortKey |-> generate_sort_key(frecuencia, draws[card]),
                  audio |-> AudioField(found.sentence[card]),
                  word_audio |-> AudioField(found.word)]]]
       ELSE [pc |-> "raised", notes |-> <<>>]

\* The lookups build_notes_from_row makes in the audio directory
AudioLookups(row, audio_dir) ==
    LET cn == CardSentencesCn(row)
        text(card) == ListGet(cn, CardIndex(card, Len(cn))).val
    IN {[sentence |-> <<f1, f2, f3>>, word |-> w] :
          f1 \in find_audio_for_sentence(text(1), audio_dir),
          f2 \in find_audio_for_sentence(text(2), audio_dir),
          f3 \in find_audio_for_sentence(text(3), audio_dir),
          w \in find_audio_for_word(Strip(row.hanzi), audio_dir)}

\* The three draws of one row: all different, and all equal
DrawTriples == {<<0, 42, RandomModulus - 1>>, <<42, 42, 42>>}

\* One call of build_notes_from_row; resources/audios does not exist
BuildNotesFromRow ==
    /\ bn.pc = "call"
    /\ \E draws \in DrawTriples, found \in AudioLookups(bn.row, NoDirectory) :
         LET res == build_notes_from_row(bn.row, draws, found)
         IN bn' = [bn EXCEPT !.pc = res.pc, !.notes = res.notes]
    /\ UNCHANGED notRow

(***************************************************************************)
(* generate_sort_key on its own                                             *)
(***************************************************************************)

\* csv_to_anki.py's main is not running
DedupOff == dd = DedupIdle /\ only_deduplicated = FALSE /\ up = Idle /\ first = NoRun

InitKey ==
    /\ \E tags \in TagLists :
         gk = [pc |-> "call", tags |-> tags, frecuencia |-> RenderFrecuencia(tags),
               random_num |-> 0, sort_key |-> <<>>]
    /\ DedupOff /\ UtilsIdle
    /\ bn = Idle /\ tts = Idle /\ au = Idle

NextKey == GenerateSortKey

SpecKey == InitKey /\ [][NextKey]_vars

HskTagsOf(tags) == SelectSeq(tags, LAMBDA d : d.kind = "hsk")
FreqTagsOf(tags) == SelectSeq(tags, LAMBDA d : d.kind = "freq")

\* The bucket digits the claim gives for a freq tag's name
ClaimedBucket(name) ==
    CASE name = Top1k  -> <<"0", "1">>
      [] name = Top3k  -> <<"0", "3">>
      [] name = Top5k  -> <<"0", "5">>
      [] name = Top10k -> <<"1", "0">>
      [] name = Rare   -> <<"9", "0">>
      [] OTHER -> <<"9", "9">>

\* C4: with an hsk tag that is an integer in 0..99, or with none that parses,
\* generate_sort_key returns 8 digits: the level (99 when missing or
\* unparsable) as 2 digits, the bucket (01, 03, 05, 10, 90; 99 when missing or
\* unknown) as 2 digits, and a random number in 0..9999 as 4 digits.
C4_SortKeyFormat ==
    gk.pc = "ret" =>
        LET hsk == HskTagsOf(gk.tags)
            freq == FreqTagsOf(gk.tags)
            key == gk.sort_key
            oneLevel == Len(hsk) = 1 /\ hsk[1].parses /\ hsk[1].int \in 0..99
            noLevel == \A j \in DOMAIN hsk : ~hsk[j].parses
        IN (oneLevel \/ noLevel) =>
              /\ Len(key) = 8
              /\ AllDigits(key)
              /\ oneLevel => ToInt(Take(key, 2)) = hsk[1].int
              /\ noLevel => Take(key, 2) = <<"9", "9">>
              /\ Len(freq) = 1 => Slice(key, 2, 4) = ClaimedBucket(freq[1].text)
              /\ freq = <<>> => Slice(key, 2, 4) = <<"9", "9">>
              /\ gk.random_num \in 0..9999
              /\ ToInt(Slice(key, 4, 8)) = gk.random_num

\* A key was returned for a one-digit level with a known bucket.
C4_Witness ==
    /\ gk.pc = "ret"
    /\ Len(HskTagsOf(gk.tags)) = 1
    /\ HskTagsOf(gk.tags)[1].int = 7
    /\ Len(FreqTagsOf(gk.tags)) = 1
    /\ FreqTagsOf(gk.tags)[1].text = Top10k
    /\ gk.random_num = 42
    /\ gk.sort_key = <<"0", "7", "1", "0", "0", "0", "4", "2">>

(***************************************************************************)
(* build_notes_from_row on its own                                          *)
(***************************************************************************)

MaxSentences == 3

MaxTranslations == 3

\* A blank piece, two sentences, and a piece that is pinyin only
CnPieces == {<<" ">>, <<"c">>, <<"d", " ", "(", "a", ")">>, <<"(", "a", ")">>}

EsPieces == {<<" ">>, <<"e">>, <<" ", "f">>}

PieceLists(pieces, n) == UNION {[1..k -> pieces] : k \in 0..n}

SampleFrecuencia == HskPrefix \o <<"7", ";">> \o FreqPrefix \o Top10k

InitRow ==
    /\ \E cn \in PieceLists(CnPieces, MaxSentences),
          es \in PieceLists(EsPieces, MaxTranslations) :
         bn = [pc |-> "call", cn_pieces |-> cn, es_pieces |-> es,
               row |-> [hanzi |-> <<"c">>, frecuencia |-> SampleFrecuencia,
                        example_sentence |-> Join(cn, "|"),
                        example_translation |-> Join(es, "|")],
               notes |-> <<>>]
    /\ DedupOff /\ UtilsIdle
    /\ gk = Idle /\ tts = Idle /\ au = Idle

NextRow == BuildNotesFromRow

SpecRow == InitRow /\ [][NextRow]_vars

\* The pieces of a field that are not blank, stripped
Written(pieces) ==
    LET kept == SelectSeq(pieces, LAMBDA q : \E j \in DOMAIN q : ~IsSpace(q[j]))
    IN [j \in DOMAIN kept |-> Strip(kept[j])]

\* The sentence a card is to use: 1, 2 (1 when there is only one), 3 (else the
\* last one there is); 0 when the row has no sentence
ClaimedSentence(card, n) == IF card <= n THEN card ELSE n

\* C6: build_notes_from_row returns exactly three notes, SentenceCard,
\* PatternCard, AudioCard, built from sentence 1, 2 (or 1) and 3 (or the last
\* there is), each with the translation at the same index; no index is out of
\* range, whatever the numbers of sentences and translations.
C6_ThreeNotes ==
    bn.pc \notin {"idle", "call"} =>
        /\ bn.pc = "ret"
        /\ Len(bn.notes) = 3
        /\ bn.notes[1].modelName = "ChinoSRS_SentenceCard"
        /\ bn.notes[2].modelName = "ChinoSRS_PatternCard"
        /\ bn.notes[3].modelName = "ChinoSRS_AudioCard"
        /\ LET cn == Written(bn.cn_pieces)
               es == Written(bn.es_pieces)
           IN \A card \in 1..3 :
                LET k == ClaimedSentence(card, Len(cn))
                IN /\ k = 0 => bn.notes[card].SentenceCN = <<>>
                   /\ k > 0 => bn.notes[card].SentenceCN = clean_pinyin_from_sentence(cn[k])
                   /\ (k > 0 /\ k <= Len(es)) => bn.notes[card].SentenceES = es[k]
                   /\ (k = 0 /\ es # <<>>) => bn.notes[card].SentenceES = es[1]
                   /\ es = <<>> => bn.notes[card].SentenceES = <<>>

\* Three notes were built from a row with three sentences and one translation.
C6_Witness ==
    /\ bn.pc = "ret"
    /\ Len(Written(bn.cn_pieces)) = 3
    /\ Len(Written(bn.es_pieces)) = 1
    /\ bn.notes[3].SentenceCN = <<"d">>
    /\ bn.notes[3].SentenceES = <<"f">>

(***************************************************************************)
(* audio/engines: generate_audio of AzureTTSEngine and GTTSEngine           *)
(*                                                                         *)
(* tts.log lists the HTTP requests (with the status of the response, 0     *)
(* when requests.post raised) and the calls of time.sleep, in order.       *)
(* tts.file is the output file: "absent", "empty" or "audio" (size > 0).   *)
(***************************************************************************)

StatusOk == 200

StatusRateLimited == 429

\* Statuses that are neither 200 nor 429
OtherStatuses == {401, 500}

\* requests.post raised: there is no response
NoResponse == 0

BackoffBase == 2

BackoffCapSeconds == 30

\* time.sleep(0.15), in milliseconds
SuccessDelayMs == 150

MsPerSecond == 1000

\* A variant without the cap
WaitTimeUncapped(attempt) == BackoffBase ^ attempt

\* wait_time = min(2 ** attempt, 30)
WaitTime(attempt) == Min(BackoffBase ^ attempt, BackoffCapSeconds)

PostEvent(status) == [ev |-> "post", status |-> status, ms |-> 0]

SleepEvent(ms) == [ev |-> "sleep", status |-> 0, ms |-> ms]

\* A variant in which the exception leaves generate_audio
ExceptionPropagates == "raised"

\* except Exception as e: ... return False
ExceptException == "False"

TtsReturn(result, cause) == [tts EXCEPT !.pc = "ret", !.result = result, !.cause = cause]

\* if os.path.exists(output_path) and os.path.getsize(output_path) > 0
VerifyFile(file) == IF file = "audio" THEN "True" ELSE "False"

\* What a failed open(..., 'wb') / write / save can leave behind
AfterFailedWrite(file) == {file, "empty"}

\* makedirs, headers, voice, ssml
AzurePrepare ==
    /\ tts.pc = "call" /\ tts.engine = "azure"
    /\ tts' = [tts EXCEPT !.pc = "loop"]
    /\ UNCHANGED notTts

\* An exception before the retry loop (os.makedirs, the speed format)
AzurePrepareRaises ==
    /\ tts.pc = "call" /\ tts.engine = "azure"
    /\ tts' = TtsReturn(ExceptException, "exception")
    /\ UNCHANGED notTts

\* range(max_retries) is exhausted without a return inside the loop
AzureLoopExhausted ==
    /\ tts.pc = "loop" /\ tts.attempt >= tts.max_retries
    /\ tts' = TtsReturn("False", "retries")
    /\ UNCHANGED notTts

\* Status 200: the content is written, then the file is verified
AzureOk ==
    /\ tts.pc = "loop" /\ tts.attempt < tts.max_retries
    /\ \E written \in {"audio", "empty"} :
         tts' = [TtsReturn(VerifyFile(written),
                           IF written = "audio" THEN "none" ELSE "empty")
                   EXCEPT !.file = written,
                          !.log = tts.log \o <<PostEvent(StatusOk), SleepEvent(SuccessDelayMs)>>]
    /\ UNCHANGED notTts

\* Status 200, but opening or writing the file raises
AzureOkWriteRaises ==
    /\ tts.pc = "loop" /\ tts.attempt < tts.max_retries
    /\ \E left \in AfterFailedWrite(tts.file) :
         tts' = [TtsReturn(ExceptException, "exception")
                   EXCEPT !.file = left, !.log = Append(tts.log, PostEvent(StatusOk))]
    /\ UNCHANGED notTts

\* Status 429 before the last attempt: sleep, then the next attempt
AzureRateLimitedRetry ==
    /\ tts.pc = "loop" /\ tts.attempt < tts.max_retries
    /\ tts.attempt < tts.max_retries - 1
    /\ tts' = [tts EXCEPT !.attempt = tts.attempt + 1,
                          !.log = tts.log \o <<PostEvent(StatusRateLimited),
                                               SleepEvent(WaitTime(tts.attempt) * MsPerSecond)>>]
    /\ UNCHANGED notTts

\* Status 429 on the last attempt
AzureRateLimitedGiveUp ==
    /\ tts.pc = "loop" /\ tts.attempt < tts.max_retries
    /\ ~(tts.attempt < tts.max_retries - 1)
    /\ tts' = [TtsReturn("False", "retries")
                 EXCEPT !.log = Append(tts.log, PostEvent(StatusRateLimited))]
    /\ UNCHANGED notTts

\* Any other status
AzureHttpError ==
    /\ tts.pc = "loop" /\ tts.attempt < tts.max_retries
    /\ \E status \in OtherStatuses :
         tts' = [TtsReturn("False", "http") EXCEPT !.log = Append(tts.log, PostEvent(status))]
    /\ UNCHANGED notTts

\* requests.post raises
AzureRequestRaises ==
    /\ tts.pc = "loop" /\ tts.attempt < tts.max_retries
    /\ tts' = [TtsReturn(ExceptException, "exception")
                 EXCEPT !.log = Append(tts.log, PostEvent(NoResponse))]
    /\ UNCHANGED notTts

\* gTTS(...).save(output_path) returns, then the file is verified
GttsSave ==
    /\ tts.pc = "call" /\ tts.engine = "gtts"
    /\ \E written \in {"audio", "empty"} :
         tts' = [TtsReturn(VerifyFile(written),
                           IF written = "audio" THEN "none" ELSE "empty")
                   EXCEPT !.file = written]
    /\ UNCHANGED notTts

\* os.makedirs, gTTS(...) or save raises
GttsRaises ==
    /\ tts.pc = "call" /\ tts.engine = "gtts"
    /\ \E left \in AfterFailedWrite(tts.file) :
         tts' = [TtsReturn(ExceptException, "exception") EXCEPT !.file = left]
    /\ UNCHANGED notTts

AzureGenerateAudio ==
    \/ AzurePrepare
    \/ AzurePrepareRaises
    \/ AzureLoopExhausted
    \/ AzureOk
    \/ AzureOkWriteRaises
    \/ AzureRateLimitedRetry
    \/ AzureRateLimitedGiveUp
    \/ AzureHttpError
    \/ AzureRequestRaises

GttsGenerateAudio ==
    \/ GttsSave
    \/ GttsRaises

MaxRetriesBound == 7

\* max_retries: int = 5
DefaultMaxRetries == 5

InitTts ==
    /\ \E engine \in {"azure", "gtts"}, file \in {"absent", "empty", "audio"},
          max_retries \in 0..MaxRetriesBound :
         /\ (engine = "gtts" => max_retries = DefaultMaxRetries)
         /\ tts = [pc |-> "call", engine |-> engine, max_retries |-> max_retries,
                   attempt |-> 0, log |-> <<>>, file |-> file,
                   result |-> "none", cause |-> "none"]
    /\ DedupOff /\ UtilsIdle
    /\ gk = Idle /\ bn = Idle /\ au = Idle

NextTts == AzureGenerateAudio \/ GttsGenerateAudio

SpecTts == InitTts /\ [][NextTts]_vars

\* The positions of the HTTP requests in the log
Posts == {i \in DOMAIN tts.log : tts.log[i].ev = "post"}

\* The number of requests sent before position i
PostsBefore(i) == Cardinality({j \in Posts : j < i})

\* 1, 2, 4, 8, 16 and then 30 seconds
ClaimedWaitSeconds(attempt) == IF attempt >= 5 THEN 30 ELSE 2 ^ attempt

\* C7: AzureTTSEngine.generate_audio sends at most max_retries requests; a
\* further request follows only a 429 response and a wait of min(2^attempt,
\* 30) seconds; after a 429 on the last allowed attempt it returns False
\* without waiting; any other non-200 status ends the call with False at once.
C7_RetryOnlyAfter429 ==
    tts.engine = "azure" =>
        /\ Cardinality(Posts) <= tts.max_retries
        /\ \A i \in Posts :
             PostsBefore(i) > 0 =>
                 /\ i >= 3
                 /\ tts.log[i - 2] = PostEvent(StatusRateLimited)
                 /\ tts.log[i - 1] =
                        SleepEvent(ClaimedWaitSeconds(PostsBefore(i) - 1) * MsPerSecond)
        /\ \A i \in DOMAIN tts.log :
             (tts.log[i].ev = "sleep" /\ tts.log[i - 1].status = StatusRateLimited)
                 => tts.pc = "loop" \/ i < Len(tts.log)
        /\ (tts.log # <<>> /\ tts.log[Len(tts.log)] = PostEvent(StatusRateLimited)) =>
               /\ Cardinality(Posts) = tts.max_retries
               /\ tts.pc = "ret" /\ tts.result = "False"
        /\ \A i \in Posts :
             tts.log[i].status \notin {StatusOk, StatusRateLimited} =>
                 /\ i = Len(tts.log)
                 /\ tts.pc = "ret" /\ tts.result = "False"

\* Seven requests were rate limited: the waits reached the cap and the call
\* returned False right after the last response.
C7_Witness ==
    /\ tts.engine = "azure" /\ tts.pc = "ret" /\ tts.result = "False"
    /\ tts.max_retries = 7
    /\ Cardinality(Posts) = 7
    /\ tts.log[12] = SleepEvent(30000)
    /\ tts.log[13] = PostEvent(StatusRateLimited)

\* C8: generate_audio of both engines never raises; every failure (exception,
\* HTTP error, retries exhausted) gives False, and True is given only when
\* the synthesis succeeded and the output file exists with size above 0.
C8_NeverRaisesTrueOnlyWithFile ==
    tts.pc = "ret" =>
        /\ tts.result \in {"True", "False"}
        /\ tts.cause # "none" => tts.result = "False"
        /\ tts.result = "True" =>
               /\ tts.file = "audio"
               /\ tts.cause = "none"
               /\ tts.engine = "azure" =>
                      \E i \in Posts : i = Len(tts.log) - 1 /\ tts.log[i].status = StatusOk

\* After one rate-limited attempt the second request raised: the call
\* returned False.
C8_Witness ==
    /\ tts.pc = "ret" /\ tts.engine = "azure"
    /\ tts.cause = "exception" /\ tts.result = "False"
    /\ Cardinality(Posts) = 2
    /\ tts.log[Len(tts.log)] = PostEvent(NoResponse)

(***************************************************************************)
(* audio/generate_audio.py: sanitize_filename, process_csv_row, main        *)
(*                                                                         *)
(* A file name is the record of its three parts: whether the name starts   *)
(* with word_, the sanitized text and the hash.  au.dir is the audio       *)
(* directory: the names in it and, among them, the files of size 0.        *)
(***************************************************************************)

\* [<>:"/\|?*]
ProblematicChars == {"<", ">", ":", "\"", "/", "\\", "|", "?", "*"}

FilenameLimit == 50

SentencePrefixLen == 30

\* re.sub(r'\s+', '_', text)
RECURSIVE SpaceRunsToUnderscore(_, _)
SpaceRunsToUnderscore(text, i) ==
    IF i > Len(text) THEN <<>>
    ELSE IF IsSpace(text[i])
         THEN <<"_">> \o SpaceRunsToUnderscore(text, i + SpaceRun(text, i))
         ELSE <<text[i]>> \o SpaceRunsToUnderscore(text, i + 1)

sanitize_filename(text) ==
    Take(SpaceRunsToUnderscore(SelectSeq(text, LAMBDA c : c \notin ProblematicChars), 1),
         FilenameLimit)

WordPrefix == <<"w", "o", "r", "d", "_">>

\* f"word_{sanitize_filename(hanzi)}_{word_hash}.mp3"
WordFilename(hanzi) ==
    [word |-> TRUE, name |-> sanitize_filename(hanzi), hash |-> Md5Hex8(hanzi)]

\* f"{sanitize_filename(sentence[:30])}_{sentence_hash}.mp3"
SentenceFilename(sentence) ==
    LET name == sanitize_filename(Take(sentence, SentencePrefixLen))
    IN [word |-> StartsWith(name, WordPrefix), name |-> name, hash |-> Md5Hex8(sentence)]

\* A variant that never finds the file
NeverExists(filename, dir) == FALSE

\* os.path.exists(os.path.join(audio_dir, filename))
PathExists(filename, dir) == filename \in dir.files

\* engine.generate_audio on a path that does not exist: True with the audio
\* written, False with no file, False with an empty file left behind
EngineOutcomes == {"audio", "absent", "empty"}

AfterGenerate(dir, filename, outcome) ==
    CASE outcome = "audio" -> [dir EXCEPT !.files = @ \cup {filename}]
      [] outcome = "empty" -> [dir EXCEPT !.files = @ \cup {filename},
                                          !.empty = @ \cup {filename}]
      [] OTHER -> dir

\* line 104 and the test of line 126
WholeFieldCleaned(row) == clean_pinyin_from_sentence(Strip(row.example_sentence))

\* line 131
SentencesToSpeak(row) ==
    LET pieces == NonBlankPieces(WholeFieldCleaned(row))
    IN [j \in DOMAIN pieces |-> clean_pinyin_from_sentence(pieces[j])]

AuRow == au.rows[au.r].row

AuHanzi == Strip(AuRow.hanzi)

\* One call of the engine, as the run records it
CallRecord(filename, outcome) ==
    [run |-> au.run, target |-> filename, existed |-> filename \in au.dir.files,
     ok |-> outcome = "audio"]

\* if hanzi: false
NoWord ==
    /\ au.pc = "word" /\ AuHanzi = <<>>
    /\ au' = [au EXCEPT !.pc = "sentences"]
    /\ UNCHANGED notAudio

\* The word file exists
WordExists ==
    /\ au.pc = "word" /\ AuHanzi # <<>>
    /\ PathExists(WordFilename(AuHanzi), au.dir)
    /\ au' = [au EXCEPT !.pc = "sentences",
                        !.generated_files = Append(@, WordFilename(AuHanzi))]
    /\ UNCHANGED notAudio

\* The word file does not exist: the engine is called
WordGenerate ==
    /\ au.pc = "word" /\ AuHanzi # <<>>
    /\ ~PathExists(WordFilename(AuHanzi), au.dir)
    /\ \E outcome \in EngineOutcomes :
         au' = [au EXCEPT !.pc = "sentences",
                          !.calls = Append(@, CallRecord(WordFilename(AuHanzi), outcome)),
                          !.dir = AfterGenerate(@, WordFilename(AuHanzi), outcome),
                          !.generated_files =
                              IF outcome = "audio" THEN Append(@, WordFilename(AuHanzi)) ELSE @]
    /\ UNCHANGED notAudio

\* The list of the row is returned; the next row, or the end of the run
ReturnFiles ==
    [au EXCEPT !.returned[au.run] = Append(@, au.generated_files),
               !.generated_files = <<>>,
               !.sentences = <<>>,
               !.idx = 1,
               !.r = IF au.r < Len(au.rows) THEN au.r + 1 ELSE 1,
               !.pc = IF au.r < Len(au.rows) THEN "word" ELSE "finished"]

\* if not sentence_cn: return generated_files
NoSentence ==
    /\ au.pc = "sentences" /\ WholeFieldCleaned(AuRow) = <<>>
    /\ au' = ReturnFiles
    /\ UNCHANGED notAudio

SplitSentences ==
    /\ au.pc = "sentences" /\ WholeFieldCleaned(AuRow) # <<>>
    /\ au' = [au EXCEPT !.pc = "loop", !.sentences = SentencesToSpeak(AuRow), !.idx = 1]
    /\ UNCHANGED notAudio

SentenceExists ==
    /\ au.pc = "loop" /\ au.idx <= Len(au.sentences)
    /\ LET filename == SentenceFilename(au.sentences[au.idx])
       IN /\ PathExists(filename, au.dir)
          /\ au' = [au EXCEPT !.idx = @ + 1, !.generated_files = Append(@, filename)]
    /\ UNCHANGED notAudio

SentenceGenerate ==
    /\ au.pc = "loop" /\ au.idx <= Len(au.sentences)
    /\ LET filename == SentenceFilename(au.sentences[au.idx])
       IN /\ ~PathExists(filename, au.dir)
          /\ \E outcome \in EngineOutcomes :
               au' = [au EXCEPT !.idx = @ + 1,
                                !.calls = Append(@, CallRecord(filename, outcome)),
                                !.dir = AfterGenerate(@, filename, outcome),
                                !.generated_files =
                                    IF outcome = "audio" THEN Append(@, filename) ELSE @]
    /\ UNCHANGED notAudio

SentencesDone ==
    /\ au.pc = "loop" /\ au.idx > Len(au.sentences)
    /\ au' = ReturnFiles
    /\ UNCHANGED notAudio

process_csv_row ==
    \/ NoWord
    \/ WordExists
    \/ WordGenerate
    \/ NoSentence
    \/ SplitSentences
    \/ SentenceExists
    \/ SentenceGenerate
    \/ SentencesDone

\* generate_audio.py is run once more on the same CSV and directory
SecondRun ==
    /\ au.pc = "finished" /\ au.run = 1
    /\ bn.pc = "idle"
    /\ au' = [au EXCEPT !.run = 2, !.pc = "word"]
    /\ UNCHANGED notAudio

\* csv_to_anki.py builds the notes of a row from the CSV and the directory
BuildNotesAfterAudio ==
    /\ au.pc = "finished"
    /\ bn.pc = "idle"
    /\ \E r \in DOMAIN au.rows, draws \in {<<0, 42, RandomModulus - 1>>} :
         \E found \in AudioLookups(au.rows[r].row, au.dir) :
           LET res == build_notes_from_row(au.rows[r].row, draws, found)
           IN bn' = [pc |-> res.pc, row_num |-> r, notes |-> res.notes]
    /\ UNCHANGED notRow

MaxAudioSentences == 2

\* Rows with the word "c" and up to MaxAudioSentences pieces, and one without word
AudioRows ==
    {[cn_pieces |-> cn,
      row |-> [hanzi |-> h, frecuencia |-> SampleFrecuencia,
               example_sentence |-> Join(cn, "|"), example_translation |-> <<"e">>]] :
        cn \in PieceLists(CnPieces, MaxAudioSentences), h \in {<<"c">>}}
    \cup
    {[cn_pieces |-> << <<"c">> >>,
      row |-> [hanzi |-> <<" ">>, frecuencia |-> SampleFrecuencia,
               example_sentence |-> <<"c">>, example_translation |-> <<"e">>]]}

\* A second row whose sentences the first row may have had already
SecondRow ==
    [cn_pieces |-> << <<"c">>, <<"d">> >>,
     row |-> [hanzi |-> <<"d">>, frecuencia |-> SampleFrecuencia,
              example_sentence |-> <<"c", "|", "d">>, example_translation |-> <<"e">>]]

CsvFiles ==
    {<<r>> : r \in AudioRows}
    \cup {<<r, SecondRow>> : r \in {q \in AudioRows : Len(q.cn_pieces) = 1}}

\* os.makedirs(audio_dir, exist_ok=True) on a new directory
EmptyDirectory == [exists |-> TRUE, files |-> {}, empty |-> {}]

InitAudio ==
    /\ \E rows \in CsvFiles :
         au = [pc |-> "word", rows |-> rows, run |-> 1, r |-> 1, idx |-> 1,
               sentences |-> <<>>, generated_files |-> <<>>,
               returned |-> << <<>>, <<>> >>, calls |-> <<>>,
               dir |-> EmptyDirectory]
    /\ DedupOff /\ UtilsIdle
    /\ gk = Idle /\ bn = Idle /\ tts = Idle

NextAudio == process_csv_row \/ SecondRun \/ BuildNotesAfterAudio

SpecAudio == InitAudio /\ [][NextAudio]_vars

CallsOfRun(run) == SelectSeq(au.calls, LAMBDA c : c.run = run)

AllSucceeded(run) == \A j \in DOMAIN au.calls : au.calls[j].run = run => au.calls[j].ok

\* C9: the engine is called for a word or sentence only when its target file
\* does not exist; after a run in which every synthesis succeeded, a second
\* run on the same CSV and directory calls no engine and returns the same
\* file names for every row.
C9_NoCallWhenFileExists ==
    /\ \A j \in DOMAIN au.calls : ~au.calls[j].existed
    /\ (au.run = 2 /\ AllSucceeded(1)) =>
           /\ CallsOfRun(2) = <<>>
           /\ au.pc = "finished" => au.returned[2] = au.returned[1]

\* The second run ended without a call although the first run made three
\* calls, all successful.
C9_Witness ==
    /\ au.run = 2 /\ au.pc = "finished"
    /\ AllSucceeded(1)
    /\ Len(CallsOfRun(1)) = 3
    /\ Len(au.returned[2][1]) = 3

\* The sentences of a row as the note builder numbers them, cleaned
RowSentences(r) ==
    LET cn == Written(au.rows[r].cn_pieces)
    IN [j \in DOMAIN cn |-> clean_pinyin_from_sentence(cn[j])]

\* C10: after a generation in which every synthesis succeeded, and for a row
\* whose sentences all have text besides pinyin, the card built from sentence
\* i carries the file process_csv_row returned for sentence i, and the word
\* audio is the file returned for the word.
C10_NotesCarryGeneratedFiles ==
    (/\ au.pc = "finished" /\ bn.pc = "ret"
     /\ \A j \in DOMAIN au.calls : au.calls[j].ok
     /\ \A j \in DOMAIN RowSentences(bn.row_num) : RowSentences(bn.row_num)[j] # <<>>) =>
        LET r == bn.row_num
            files == au.returned[au.run][r]
            n == Len(RowSentences(r))
            off == IF Strip(au.rows[r].row.hanzi) = <<>> THEN 0 ELSE 1
        IN /\ off = 1 => (files # <<>> /\ bn.notes[1].word_audio = files[1])
           /\ \A card \in 1..3 :
                LET i == ClaimedSentence(card, n)
                IN i > 0 => /\ off + i <= Len(files)
                            /\ bn.notes[card].audio = files[off + i]

(***************************************************************************)
(* utils/validate_audio.py                                                  *)
(*                                                                         *)
(* The script has its own clean_pinyin_from_sentence and sanitize_filename *)
(* (the latter with the regular expressions of generate_audio.py).         *)
(***************************************************************************)

\* Where a match of \s*\([^)]*\)\s* that starts at i ends, 0 when there is none
RECURSIVE FirstClose(_, _)
FirstClose(s, i) ==
    IF i > Len(s) THEN 0 ELSE IF s[i] = ")" THEN i ELSE FirstClose(s, i + 1)

AnyParenMatchEnd(s, i) ==
    LET open == i + SpaceRun(s, i)
        close == IF open <= Len(s) /\ s[open] = "(" THEN FirstClose(s, open + 1) ELSE 0
    IN IF close = 0 THEN 0 ELSE close + SpaceRun(s, close + 1)

\* re.sub(r'\s*\([^)]*\)\s*', '', sentence), from position i on
RECURSIVE SubAnyParen(_, _)
SubAnyParen(s, i) ==
    IF i > Len(s) THEN <<>>
    ELSE LET e == AnyParenMatchEnd(s, i)
         IN IF e > 0 THEN SubAnyParen(s, e + 1)
            ELSE <<s[i]>> \o SubAnyParen(s, i + 1)

\* validate_audio.clean_pinyin_from_sentence
validate_clean_pinyin(sentence) ==
    IF sentence = <<>> THEN <<>> ELSE Strip(SubAnyParen(sentence, 1))

\* clean_sentence = clean_pinyin_from_sentence(sentence)
ExpectedClean(sentence) == validate_clean_pinyin(sentence)

\* get_expected_audio_files: (audio_type, expected_path, exists) per file
get_expected_audio_files(row, files) ==
    LET hanzi == Strip(row.hanzi)
        sentences == NonBlankPieces(Strip(row.example_sentence))
        cleaned == [i \in DOMAIN sentences |->
                       [type |-> "sentence", i |-> i, text |-> ExpectedClean(sentences[i])]]
        kept == SelectSeq(cleaned, LAMBDA e : e.text # <<>>)
        word == IF hanzi # <<>>
                THEN << [type |-> "word", i |-> 0, path |-> WordFilename(hanzi),
                         exists |-> WordFilename(hanzi) \in files] >>
                ELSE <<>>
    IN word \o [j \in DOMAIN kept |->
                  [type |-> "sentence", i |-> kept[j].i,
                   path |-> SentenceFilename(kept[j].text),
                   exists |-> SentenceFilename(kept[j].text) \in files]]

\* The file names process_csv_row works on for a row: the word file and one
\* file per sentence (generate_audio.py lines 111 and 136)
GeneratorTargets(row) ==
    LET hanzi == Strip(row.hanzi)
        sentences == IF WholeFieldCleaned(row) = <<>> THEN <<>> ELSE SentencesToSpeak(row)
    IN (IF hanzi # <<>> THEN {WordFilename(hanzi)} ELSE {})
       \cup {SentenceFilename(sentences[j]) : j \in DOMAIN sentences}

\* if not Path(args.csv_file).exists(): sys.exit(1)
CsvNotFound ==
    /\ va.pc = "main" /\ ~va.csv_exists
    /\ va' = [va EXCEPT !.pc = "exited", !.status = "1"]
    /\ UNCHANGED notValidate

\* if not Path(args.audio_dir).exists(): sys.exit(1)
AudioDirNotFound ==
    /\ va.pc = "main" /\ va.csv_exists /\ ~va.dir_exists
    /\ va' = [va EXCEPT !.pc = "exited", !.status = "1"]
    /\ UNCHANGED notValidate

StartValidation ==
    /\ va.pc = "main" /\ va.csv_exists /\ va.dir_exists
    /\ va' = [va EXCEPT !.pc = "rows"]
    /\ UNCHANGED notValidate

\* The files of a row that are counted: those not seen before (lines 98-110)
RECURSIVE CountRow(_, _, _)
CountRow(acc, expected, j) ==
    IF j > Len(expected) THEN acc
    ELSE LET e == expected[j]
             new == e.path \notin acc.seen_files
         IN CountRow(
              [seen_files |-> acc.seen_files \cup {e.path},
               total_expected |-> acc.total_expected + (IF new THEN 1 ELSE 0),
               missing_count |-> acc.missing_count + (IF new /\ ~e.exists THEN 1 ELSE 0),
               missing_details |-> IF new /\ ~e.exists
                                   THEN Append(acc.missing_details, e.path)
                                   ELSE acc.missing_details],
              expected, j + 1)

\* One iteration of the row loop of validate_audio
ValidateRow ==
    /\ va.pc = "rows" /\ va.r <= Len(va.rows)
    /\ LET expected == get_expected_audio_files(va.rows[va.r].row, va.files)
           acc == CountRow([seen_files |-> va.seen_files,
                            total_expected |-> va.total_expected,
                            missing_count |-> va.missing_count,
                            missing_details |-> va.missing_details], expected, 1)
       IN va' = [va EXCEPT !.r = @ + 1,
                           !.expected = Append(@, expected),
                           !.seen_files = acc.seen_files,
                           !.total_expected = acc.total_expected,
                           !.missing_count = acc.missing_count,
                           !.missing_details = acc.missing_details]
    /\ UNCHANGED notValidate

\* The results are printed: the coverage line divides by total_expected
ReportDivisionByZero ==
    /\ va.pc = "rows" /\ va.r > Len(va.rows)
    /\ va.total_expected = 0
    /\ va' = [va EXCEPT !.pc = "exited", !.status = "ZeroDivisionError"]
    /\ UNCHANGED notValidate

\* The results are printed, the missing files listed or exported: sys.exit(0)
ReportAndExit ==
    /\ va.pc = "rows" /\ va.r > Len(va.rows)
    /\ va.total_expected # 0
    /\ va' = [va EXCEPT !.pc = "exited", !.status = "0",
                        !.coverage_percent =
                            ((va.total_expected - va.missing_count) * 100) \div va.total_expected,
                        !.exported = IF va.missing_count > 0 /\ va.export_missing
                                     THEN va.missing_details ELSE <<>>]
    /\ UNCHANGED notValidate

validate_audio_main ==
    \/ CsvNotFound
    \/ AudioDirNotFound
    \/ StartValidation
    \/ ValidateRow
    \/ ReportDivisionByZero
    \/ ReportAndExit

MaxValidateSentences == 2

\* A sentence whose parenthesised pinyin has a comma
PinyinWithComma == <<"c", "(", "a", ",", "a", ")">>

ValidatePieces == CnPieces \cup {PinyinWithComma}

ValidateRows ==
    {[cn_pieces |-> cn,
      row |-> [hanzi |-> h, example_sentence |-> Join(cn, "|")]] :
        cn \in PieceLists(ValidatePieces, MaxValidateSentences), h \in {<<>>, <<"c">>}}

\* A CSV without rows, with one row, or with the same row twice
ValidateCsvFiles == {<<>>} \cup {<<r>> : r \in ValidateRows} \cup {<<r, r>> : r \in ValidateRows}

\* What generate_audio.py can have left in the directory for a CSV
GeneratedDirectories(rows) == SUBSET (UNION {GeneratorTargets(rows[j].row) : j \in DOMAIN rows})

InitValidate ==
    /\ \E rows \in ValidateCsvFiles :
         \E files \in GeneratedDirectories(rows), export \in BOOLEAN,
            csv_exists \in BOOLEAN, dir_exists \in BOOLEAN :
           /\ (~csv_exists \/ ~dir_exists) => (files = {} /\ ~export /\ rows = <<>>)
           /\ va = [pc |-> "main", rows |-> rows, files |-> files,
                    csv_exists |-> csv_exists, dir_exists |-> dir_exists,
                    export_missing |-> export, r |-> 1, expected |-> <<>>,
                    seen_files |-> {}, total_expected |-> 0, missing_count |-> 0,
                    missing_details |-> <<>>, coverage_percent |-> 0,
                    exported |-> <<>>, status |-> "running"]
    /\ DedupOff
    /\ gk = Idle /\ bn = Idle /\ tts = Idle /\ au = Idle
    /\ ap = Idle /\ dm = Idle /\ np = Idle

NextValidate == validate_audio_main

SpecValidate == InitValidate /\ [][NextValidate]_vars

\* The file names validate_audio expects for row r
ExpectedPaths(r) == {va.expected[r][j].path : j \in DOMAIN va.expected[r]}

\* C11: for every row, the file names validate_audio expects are the file
\* names process_csv_row writes for that row, so that the files reported
\* missing are exactly the generator's files that are not in the directory.
C11_ExpectedEqualsGenerated ==
    /\ \A r \in DOMAIN va.expected : ExpectedPaths(r) = GeneratorTargets(va.rows[r].row)
    /\ va.status = "0" =>
           Range(va.missing_details) =
               (UNION {GeneratorTargets(va.rows[r].row) : r \in DOMAIN va.rows}) \ va.files

\* C13: once the CSV file and the audio directory exist, main exits with
\* status 0, whatever the numbers of files expected and missing, also when
\* no file is expected.
C13_AlwaysExitsZero ==
    (va.pc = "exited" /\ va.csv_exists /\ va.dir_exists) => va.status = "0"

(***************************************************************************)
(* anki/api.py: post                                                        *)
(*                                                                         *)
(* ap.reply is what the transport does: "url_error", "http_error" (with    *)
(* ap.body_utf8 telling whether the error body decodes), "read_error",     *)
(* "not_utf8", "not_json", "not_object", or "object" with the reply's      *)
(* error and result members.                                               *)
(***************************************************************************)

\* str.lower() on the letters the error texts use
LowerChar(c) == IF c = "D" THEN "d" ELSE c

Lower(text) == [i \in DOMAIN text |-> LowerChar(text[i])]

\* sub in text
Contains(text, sub) ==
    \E i \in 0..(Len(text) - Len(sub)) : SubSeq(text, i + 1, i + Len(sub)) = sub

DuplicateWord == <<"d", "u", "p", "l", "i", "c", "a", "t", "e">>

\* JSON null
Null == <<"null">>

PostRaise(exception) == [ap EXCEPT !.pc = "raised", !.exception = exception]

PostReturn(value) == [ap EXCEPT !.pc = "returned", !.value = value]

\* error_body = e.read().decode('utf-8'), evaluated inside the handler
HttpErrorBody(body_utf8) == IF body_utf8 THEN "RuntimeError" ELSE "UnicodeDecodeError"

\* json.dumps(...) of params that cannot be serialised, before the try
PostPayloadRaises ==
    /\ ap.pc = "call" /\ ~ap.params_serializable
    /\ ap' = PostRaise("TypeError")
    /\ UNCHANGED notPost

\* urllib.request.Request(ANKI_CONNECT_URL, ...) on a URL without scheme
PostRequestRaises ==
    /\ ap.pc = "call" /\ ap.params_serializable /\ ~ap.url_has_scheme
    /\ ap' = PostRaise("ValueError")
    /\ UNCHANGED notPost

\* urlopen is called
PostSend ==
    /\ ap.pc = "call" /\ ap.params_serializable /\ ap.url_has_scheme
    /\ ap' = [ap EXCEPT !.pc = "sent"]
    /\ UNCHANGED notPost

\* except urllib.error.HTTPError
PostHttpError ==
    /\ ap.pc = "sent" /\ ap.reply = "http_error"
    /\ ap' = PostRaise(HttpErrorBody(ap.body_utf8))
    /\ UNCHANGED notPost

\* except urllib.error.URLError
PostUrlError ==
    /\ ap.pc = "sent" /\ ap.reply = "url_error"
    /\ ap' = PostRaise("RuntimeError")
    /\ UNCHANGED notPost

\* except Exception: read, decode, json.loads or data.get fails
PostUnexpected ==
    /\ ap.pc = "sent" /\ ap.reply \in {"read_error", "not_utf8", "not_json", "not_object"}
    /\ ap' = PostRaise("RuntimeError")
    /\ UNCHANGED notPost

\* data.get("error") is not None
PostErrorReply ==
    /\ ap.pc = "sent" /\ ap.reply = "object" /\ ap.error # Null
    /\ ap' = IF ap.action = "addNotes" /\ Contains(Lower(ap.error), DuplicateWord)
             THEN PostReturn(ap.result)
             ELSE PostRaise("RuntimeError")
    /\ UNCHANGED notPost

\* No error member
PostResult ==
    /\ ap.pc = "sent" /\ ap.reply = "object" /\ ap.error = Null
    /\ ap' = IF ap.result = Null /\ ap.action = "addNotes"
             THEN PostRaise("RuntimeError")
             ELSE PostReturn(ap.result)
    /\ UNCHANGED notPost

post ==
    \/ PostPayloadRaises
    \/ PostRequestRaises
    \/ PostSend
    \/ PostHttpError
    \/ PostUrlError
    \/ PostUnexpected
    \/ PostErrorReply
    \/ PostResult

ErrorTexts ==
    {Null,
     <<"b", "o", "o", "m">>,
     <<"D", "u", "p", "l", "i", "c", "a", "t", "e">>,
     <<"a", " ">> \o DuplicateWord \o <<" ", "n", "o", "t", "e">>}

ResultValues == {Null, <<"[", "1", "]">>}

Replies == {"url_error", "http_error", "read_error", "not_utf8", "not_json", "not_object", "object"}

InitPost ==
    /\ \E action \in {"addNotes", "findNotes"}, reply \in Replies,
          error \in ErrorTexts, result \in ResultValues,
          body_utf8 \in BOOLEAN, serializable \in BOOLEAN, scheme \in BOOLEAN :
         /\ reply # "object" => (error = Null /\ result = Null)
         /\ reply # "http_error" => body_utf8
         /\ ap = [pc |-> "call", action |-> action, params_serializable |-> serializable,
                  url_has_scheme |-> scheme, reply |-> reply, body_utf8 |-> body_utf8,
                  error |-> error, result |-> result,
                  exception |-> "none", value |-> Null]
    /\ DedupOff
    /\ gk = Idle /\ bn = Idle /\ tts = Idle /\ au = Idle
    /\ va = Idle /\ dm = Idle /\ np = Idle

NextPost == post

SpecPost == InitPost /\ [][NextPost]_vars

\* C12: once the request is sent, post raises only RuntimeError; HTTP errors,
\* connection errors, malformed replies and error replies raise it, except
\* that an addNotes reply whose error text contains "duplicate" returns the
\* reply's result; an addNotes reply with no error and a null result raises
\* RuntimeError.
C12_OnlyRuntimeError ==
    (ap.pc \in {"raised", "returned"} /\ ap.params_serializable /\ ap.url_has_scheme) =>
        LET duplicate == /\ ap.reply = "object" /\ ap.error # Null /\ ap.action = "addNotes"
                         /\ \E i \in 1..(Len(ap.error) - 8) :
                              SubSeq(ap.error, i, i + 8) \in
                                  {DuplicateWord, <<"D">> \o Tail(DuplicateWord)}
        IN /\ ap.pc = "raised" => ap.exception = "RuntimeError"
           /\ ap.reply # "object" => ap.pc = "raised"
           /\ (ap.reply = "object" /\ ap.error # Null) =>
                  IF duplicate THEN ap.pc = "returned" /\ ap.value = ap.result
                  ELSE ap.pc = "raised"
           /\ (ap.reply = "object" /\ ap.error = Null /\ ap.result = Null
               /\ ap.action = "addNotes") => ap.pc = "raised"

(***************************************************************************)
(* main.py dump and utils/dump_deck.py                                      *)
(*                                                                         *)
(* dm.args are the options main.py parsed, dm.cmd the command line it      *)
(* starts, dm.anki_decks the decks of the Anki collection that have notes. *)
(***************************************************************************)

DefaultDeck == "Chino SRS"

DumpScript == "src/utils/dump_deck.py"

\* cmd of workflow_dump_deck, without the interpreter
DumpCommand(args) ==
    <<DumpScript>>
    \o (IF args.deck # "" THEN <<"--deck", args.deck>> ELSE <<>>)
    \o (IF args.output # "" THEN <<"--output", args.output>> ELSE <<>>)

\* sys.argv[n] of the started script
Argv(cmd, n) == cmd[n + 1]

\* query = f'deck:"{deck_name}"'
DeckQuery(deck_name) == <<"deck:\"", deck_name, "\"">>

\* workflow_dump_deck builds the command, run_command starts it
WorkflowDumpDeck ==
    /\ dm.pc = "main" /\ dm.python_found
    /\ dm' = [dm EXCEPT !.pc = "dump_deck", !.cmd = DumpCommand(dm.args)]
    /\ UNCHANGED notDump

\* subprocess.run raises FileNotFoundError: run_command returns False
PythonNotFound ==
    /\ dm.pc = "main" /\ ~dm.python_found
    /\ dm' = [dm EXCEPT !.pc = "exited", !.cmd = DumpCommand(dm.args), !.status = 1]
    /\ UNCHANGED notDump

\* dump_deck.py: if len(sys.argv) < 2
DumpUsage ==
    /\ dm.pc = "dump_deck" /\ Len(dm.cmd) < 2
    /\ dm' = [dm EXCEPT !.pc = "returned", !.child_status = 1]
    /\ UNCHANGED notDump

\* dump_deck.py: call("version") fails
DumpNoConnection ==
    /\ dm.pc = "dump_deck" /\ ~(Len(dm.cmd) < 2) /\ ~dm.anki_running
    /\ dm' = [dm EXCEPT !.pc = "returned", !.child_status = 1,
                        !.deck_name = Argv(dm.cmd, 1)]
    /\ UNCHANGED notDump

\* dump_deck.py: findNotes finds nothing
DumpNoNotes ==
    /\ dm.pc = "dump_deck" /\ ~(Len(dm.cmd) < 2) /\ dm.anki_running
    /\ Argv(dm.cmd, 1) \notin dm.anki_decks
    /\ dm' = [dm EXCEPT !.pc = "returned", !.child_status = 0,
                        !.deck_name = Argv(dm.cmd, 1),
                        !.query = DeckQuery(Argv(dm.cmd, 1))]
    /\ UNCHANGED notDump

\* dump_deck.py: the notes found are written to outputs/anki_dump_<name>.json
DumpExport ==
    /\ dm.pc = "dump_deck" /\ ~(Len(dm.cmd) < 2) /\ dm.anki_running
    /\ Argv(dm.cmd, 1) \in dm.anki_decks
    /\ dm' = [dm EXCEPT !.pc = "returned", !.child_status = 0,
                        !.deck_name = Argv(dm.cmd, 1),
                        !.query = DeckQuery(Argv(dm.cmd, 1)),
                        !.exported = {Argv(dm.cmd, 1)}]
    /\ UNCHANGED notDump

\* run_command returns, main exits with 0 or 1
MainExit ==
    /\ dm.pc = "returned"
    /\ dm' = [dm EXCEPT !.pc = "exited", !.status = IF dm.child_status = 0 THEN 0 ELSE 1]
    /\ UNCHANGED notDump

main_dump ==
    \/ WorkflowDumpDeck
    \/ PythonNotFound
    \/ DumpUsage
    \/ DumpNoConnection
    \/ DumpNoNotes
    \/ DumpExport
    \/ MainExit

\* --deck NAME values; the option's default when it is not given
DeckArguments == {DefaultDeck, "HSK", ""}

\* --output values; "" when the option is not given
OutputArguments == {"", "backup.json"}

\* Names a deck of the collection may have
AnkiDeckNames == {DefaultDeck, "HSK", "--deck", "--output"}

NoQuery == <<>>

InitDump ==
    /\ \E deck \in DeckArguments, output \in OutputArguments,
          decks \in SUBSET AnkiDeckNames, running \in BOOLEAN, found \in BOOLEAN :
         dm = [pc |-> "main", args |-> [deck |-> deck, output |-> output],
               python_found |-> found, anki_running |-> running, anki_decks |-> decks,
               cmd |-> <<>>, deck_name |-> "", query |-> NoQuery, exported |-> {},
               child_status |-> 0 - 1, status |-> 0 - 1]
    /\ DedupOff
    /\ gk = Idle /\ bn = Idle /\ tts = Idle /\ au = Idle
    /\ va = Idle /\ ap = Idle /\ np = Idle

NextDump == main_dump

SpecDump == InitDump /\ [][NextDump]_vars

\* C14: main.py dump --deck NAME exports the notes of the deck NAME: the
\* findNotes query that dump_deck.py sends names the deck given to main.py,
\* and the notes exported are those of that deck.
C14_DumpQueriesGivenDeck ==
    /\ dm.query # NoQuery => dm.query = <<"deck:\"", dm.args.deck, "\"">>
    /\ \A d \in dm.exported : d = dm.args.deck
    /\ (dm.pc = "exited" /\ dm.python_found /\ dm.anki_running
        /\ dm.args.deck \in dm.anki_decks) => dm.exported = {dm.args.deck}

(***************************************************************************)
(* utils/normalize_pinyin_csv.py: normalize_pinyin_syllable                 *)
(*                                                                         *)
(* np.syllable is the argument, np.result what the function returns.       *)
(* A character with a diacritic is written as one element named after its  *)
(* letter: "u.." is ü, "a1" "a2" "a3" "a4" are ā á ǎ à, "u..3" is ǚ, and    *)
(* "U..3" is Ǚ.                                                             *)
(***************************************************************************)

AsciiLower == <<"a", "b", "c", "d", "e", "f", "g", "h", "i", "j", "k", "l", "m",
                "n", "o", "p", "q", "r", "s", "t", "u", "v", "w", "x", "y", "z", "u..">>

AsciiUpper == <<"A", "B", "C", "D", "E", "F", "G", "H", "I", "J", "K", "L", "M",
                "N", "O", "P", "Q", "R", "S", "T", "U", "V", "W", "X", "Y", "Z", "U..">>

\* The tone marked vowels āáǎàēéěèīíǐìōóǒòūúǔùǖǘǚǜ and their capitals
MarkedLower == <<"a1", "a2", "a3", "a4", "e1", "e2", "e3", "e4", "i1", "i2", "i3", "i4",
                 "o1", "o2", "o3", "o4", "u1", "u2", "u3", "u4", "u..1", "u..2", "u..3", "u..4">>

MarkedUpper == <<"A1", "A2", "A3", "A4", "E1", "E2", "E3", "E4", "I1", "I2", "I3", "I4",
                 "O1", "O2", "O3", "O4", "U1", "U2", "U3", "U4", "U..1", "U..2", "U..3", "U..4">>

LowerCased == AsciiLower \o MarkedLower

UpperCased == AsciiUpper \o MarkedUpper

\* c.isupper()
IsUpper(c) == c \in Range(UpperCased)

\* c.lower()
PinyinLowerChar(c) ==
    IF IsUpper(c) THEN LowerCased[CHOOSE k \in DOMAIN UpperCased : UpperCased[k] = c] ELSE c

\* c.upper()
PinyinUpperChar(c) ==
    IF c \in Range(LowerCased)
    THEN UpperCased[CHOOSE k \in DOMAIN LowerCased : LowerCased[k] = c] ELSE c

\* text.lower()
PinyinLower(text) == [k \in DOMAIN text |-> PinyinLowerChar(text[k])]

\* TONE_MARKS[vowel]
TONE_MARKS(vowel) ==
    CASE vowel = "a" -> <<"a1", "a2", "a3", "a4", "a">>
      [] vowel = "e" -> <<"e1", "e2", "e3", "e4", "e">>
      [] vowel = "i" -> <<"i1", "i2", "i3", "i4", "i">>
      [] vowel = "o" -> <<"o1", "o2", "o3", "o4", "o">>
      [] vowel = "u" -> <<"u1", "u2", "u3", "u4", "u">>
      [] vowel = "u.." -> <<"u..1", "u..2", "u..3", "u..4", "u..">>
      [] vowel = "v" -> <<"u..1", "u..2", "u..3", "u..4", "u..">>

\* text.index(c), as a position from 1
IndexOfChar(text, c) == CHOOSE k \in DOMAIN text : text[k] = c /\ \A j \in 1..(k - 1) : text[j] # c

\* text.replace('v', 'ü')
ReplaceV(text) == [k \in DOMAIN text |-> IF text[k] = "v" THEN "u.." ELSE text[k]]

\* The vowel that takes the mark: a, else e, else the o of ou, else the last of iouüv
MarkPosition(syllable_lower) ==
    IF "a" \in Range(syllable_lower) THEN IndexOfChar(syllable_lower, "a")
    ELSE IF "e" \in Range(syllable_lower) THEN IndexOfChar(syllable_lower, "e")
    ELSE IF Contains(syllable_lower, <<"o", "u">>) THEN IndexOfChar(syllable_lower, "o")
    ELSE LET vowels_in_syllable ==
                 {k \in DOMAIN syllable_lower : syllable_lower[k] \in {"i", "o", "u", "u..", "v"}}
         IN IF vowels_in_syllable = {} THEN 0
            ELSE CHOOSE k \in vowels_in_syllable : \A j \in vowels_in_syllable : j <= k

add_tone_mark(syllable, tone) ==
    IF tone < 1 \/ tone > 5 THEN syllable
    ELSE IF tone = 5 THEN syllable
    ELSE LET is_capitalized == syllable # <<>> /\ IsUpper(syllable[1])
             syllable_lower == ReplaceV(PinyinLower(syllable))
             pos == MarkPosition(syllable_lower)
         IN IF pos = 0 THEN syllable
            ELSE LET marked_vowel == TONE_MARKS(syllable_lower[pos])[tone]
                     result == SubSeq(syllable_lower, 1, pos - 1) \o <<marked_vowel>>
                               \o SubSeq(syllable_lower, pos + 1, Len(syllable_lower))
                 IN IF is_capitalized
                    THEN <<PinyinUpperChar(result[1])>> \o Tail(result)
                    ELSE result

\* re.sub(r':(\d)', r'\1', syllable)
RECURSIVE SubColonDigit(_)
SubColonDigit(s) ==
    IF s = <<>> THEN <<>>
    ELSE IF s[1] = ":" /\ Len(s) > 1 /\ IsDigit(s[2])
         THEN <<s[2]>> \o SubColonDigit(SubSeq(s, 3, Len(s)))
         ELSE <<s[1]>> \o SubColonDigit(Tail(s))

\* [a-züvāáǎàēéěèīíǐìōóǒòūúǔùǖǘǚǜ] with re.IGNORECASE
InSyllableClass(c) == c \in Range(LowerCased) \/ c \in Range(UpperCased)

\* re.match(r'^([...]+?)(\d)$', syllable, re.IGNORECASE)
ToneMatch(s) ==
    /\ Len(s) >= 2
    /\ IsDigit(s[Len(s)])
    /\ \A k \in 1..(Len(s) - 1) : InSyllableClass(s[k])

\* Those of u that are always ü
AlwaysUmlaut == {<<"j", "u">>, <<"q", "u">>, <<"x", "u">>, <<"y", "u">>}

normalize_pinyin_syllable(syllable) ==
    IF syllable = <<>> THEN syllable
    ELSE LET stripped == SubColonDigit(Strip(syllable))
         IN IF ~ToneMatch(stripped) THEN stripped
            ELSE LET base == SubSeq(stripped, 1, Len(stripped) - 1)
                     tone == DigitVal(stripped[Len(stripped)])
                     has_diacritics == \E k \in DOMAIN base : base[k] \in Range(MarkedLower)
                 IN IF has_diacritics THEN base
                    ELSE IF tone = 5 THEN base
                    ELSE IF PinyinLower(base) \in AlwaysUmlaut
                         THEN add_tone_mark(SubSeq(base, 1, Len(base) - 1) \o <<"u..">>, tone)
                         ELSE add_tone_mark(base, tone)

\* One call of normalize_pinyin_syllable
NormalizeSyllable ==
    /\ np.pc = "call"
    /\ np' = [np EXCEPT !.pc = "returned", !.result = normalize_pinyin_syllable(np.syllable)]
    /\ UNCHANGED notPinyin

MaxSyllableLen == 4

SyllableChars == {"l", "u", "u..", "v", ":", "1", "2", "3", "4", "5"}

RECURSIVE Syllables(_)
Syllables(n) ==
    IF n = 0 THEN {<<>>}
    ELSE Syllables(n - 1)
         \cup {s \o <<c>> : s \in {t \in Syllables(n - 1) : Len(t) = n - 1}, c \in SyllableChars}

\* The examples of the function's documentation and syllables of other shapes
DocumentedSyllables ==
    { <<"l", "u">>, <<"r", "5">>, <<"w", "a2", "n", "r", "5">>,
      <<"x", "i", "n", "g", "2">>, <<"j", "u", "3">>, <<"L", "v", "3">>,
      <<" ", "l", "v", "3", " ">>, <<"l", "o", "u", "3">>, <<"m", "a", "0">>,
      <<"n", "g", "2">>, <<"l", "u..", "e", "4">> }

InitPinyin ==
    /\ \E s \in Syllables(MaxSyllableLen) \cup DocumentedSyllables :
         np = [pc |-> "call", syllable |-> s, result |-> <<>>]
    /\ DedupOff
    /\ gk = Idle /\ bn = Idle /\ tts = Idle /\ au = Idle
    /\ va = Idle /\ ap = Idle /\ dm = Idle

NextPinyin == NormalizeSyllable

SpecPinyin == InitPinyin /\ [][NextPinyin]_vars

\* The ways of writing consonant + ü that the claim names: u:, v, ü and plain u
UmlautSpellings == {<<"u", ":">>, <<"v">>, <<"u..">>, <<"u">>}

\* C15: l followed by u:, v, ü or u and a tone digit 1-4 gives l with the tone
\* marked ü (lu:3, lu3, lü3 and lv3 all give lǚ), and a syllable ending in the
\* tone digit 5 gives the syllable without the digit and without a new mark.
C15_UmlautSyllables ==
    np.pc = "returned" =>
        /\ \A w \in UmlautSpellings, tone \in 1..4 :
             np.syllable = <<"l">> \o w \o <<DigitChars[tone + 1]>>
                 => np.result = <<"l", TONE_MARKS("u..")[tone]>>
        /\ (ToneMatch(np.syllable) /\ np.syllable[Len(np.syllable)] = "5")
                 => np.result = SubSeq(np.syllable, 1, Len(np.syllable) - 1)

(***************************************************************************)
(* deduplicate_sort_keys: the search for a free key                         *)
(***************************************************************************)

\* The keys in use that lie in the group's own bucket or a higher one of its level
UsedFromOwnBucketOn ==
    {k \in dd.used_sortkeys : Take(k, 2) = CurHsk /\ ToInt(Slice(k, 2, 4)) >= ToInt(CurFreq)}

\* C16: RuntimeError is raised only when no unused key of the group's HSK
\* level remains in the group's own bucket or in any higher bucket up to 99.
C16_RaisesOnlyWhenSaturated ==
    dd.pc = "raised"
        => Cardinality(UsedFromOwnBucketOn)
              = (MaxFreqBucket - ToInt(CurFreq) + 1) * RandomModulus

\* The bucket in which the group of run d has its key
GroupFreq(d) == ToInt(Slice(d.input[d.duplicate_groups[d.groups_processed][1]], 2, 4))

\* The candidates examined so far for the note being placed are all in use
ExaminedOccupied ==
    \A k \in 0..dd.attempts :
        NewKey(CurHsk, dd.current_freq, CurBase, dd.offset - k) \in dd.used_sortkeys

\* C17: a new group starts in its own bucket with offset 1; within a group the
\* candidates are hsk, the current bucket and (base + offset) mod 10000 with
\* the offset growing by one per candidate; the bucket changes only to the
\* next one, with the offset reset to 0, and only when more than 1000
\* consecutive candidates were found in use while placing one note.
C17_SearchOrder ==
    [][ /\ dd'.groups_processed # dd.groups_processed
            => /\ dd'.groups_processed = dd.groups_processed + 1
               /\ dd'.offset = 1
               /\ dd'.current_freq = GroupFreq(dd')
        /\ (dd'.groups_processed = dd.groups_processed
            /\ dd'.current_freq # dd.current_freq)
            => /\ dd'.current_freq = dd.current_freq + 1
               /\ dd'.offset = 0
               /\ dd.attempts + 1 > max_sequential_attempts
               /\ ExaminedOccupied
        /\ (dd'.groups_processed = dd.groups_processed
            /\ dd'.current_freq = dd.current_freq
            /\ dd'.offset # dd.offset)
            => /\ dd.pc = "try"
               /\ dd'.offset = dd.offset + 1
        /\ dd'.notes # dd.notes
            => /\ dd.pc = "try"
               /\ \E j \in Range(Tail(CurGroup)) :
                    dd'.notes = [dd.notes EXCEPT
                                    ![j] = CurHsk \o Fmt(dd.current_freq, 2)
                                           \o Fmt((CurBase + dd.offset) % RandomModulus, 4)]
      ]_vars

\* The first duplicate of a group was placed in the next bucket at offset 0,
\* after 1001 candidates of its own bucket were found in use.
C17_Witness ==
    /\ dd.pc = "notes"
    /\ dd.groups_processed = 1
    /\ dd.i = 2
    /\ dd.current_freq = GroupFreq(dd) + 1
    /\ dd.offset = 1
    /\ dd.notes[CurGroup[2]] = CurHsk \o Fmt(GroupFreq(dd) + 1, 2) \o Fmt(CurBase, 4)
    /\ \A k \in 1..(max_sequential_attempts + 1) :
          NewKey(CurHsk, GroupFreq(dd), CurBase, k) \in dd.used_sortkeys

====
